---- MODULE Spec2Model ----
(***************************************************************************)
(* BattleDroid (agents/battle_droid/battle_droid.py): a bilateral          *)
(* negotiation agent.  The model covers the event dispatcher notifyChange, *)
(* the opponent model kept by opponent_action, the turn logic my_turn, the *)
(* acceptance test accept_condition and the bid search find_bid.           *)
(*                                                                         *)
(* Numbers.  Own utilities (Decimal), progress and the float scalars are   *)
(* fixed-point integers in units of 1/Scale.  Issue weights are kept as    *)
(* exact fractions <<numerator, denominator>>.  Python's float and Decimal *)
(* are distinct types: utility_last_sent_bid carries its type, because     *)
(* float - Decimal raises TypeError while Decimal - Decimal does not.      *)
(*                                                                         *)
(* A Python exception leaves the assignments made before it in place and   *)
(* leaves notifyChange; it is recorded in error and ends the session.      *)
(***************************************************************************)
EXTENDS Integers, Sequences, FiniteSets, TLC

VARIABLES
    phase,                      \* AwaitingSettings, Active, Finished
    profile,                    \* self.profile / self.domain, set by Settings
    now,                        \* index of the clock into ProgressGrid
    bid_history,                \* self.bid_history
    value_frequencies,          \* self.value_frequencies
    issue_weights,              \* self.issue_weights
    issue_change_counter,       \* self.issue_change_counter
    last_received_bid,          \* self.last_received_bid
    utility_last_received_bid,  \* self.utility_last_received_bid
    utility_last_sent_bid,      \* self.utility_last_sent_bid, with its type
    error,                      \* the exception that left notifyChange, or "none"
    last_event,                 \* the Inform most recently given to notifyChange
    outbox,                     \* the actions sent while handling last_event
    turns_since_offer,          \* turns taken since the last opponent offer (2: two or more)
    found_bid                   \* the bid find_bid returned while handling last_event

vars == <<phase, profile, now, bid_history, value_frequencies, issue_weights,
          issue_change_counter, last_received_bid, utility_last_received_bid,
          utility_last_sent_bid, error, last_event, outbox, turns_since_offer,
          found_bid>>

model_vars == <<last_received_bid, bid_history, issue_weights,
                issue_change_counter, value_frequencies>>

----------------------------------------------------------------------------
(* Bounds of the model.                                                    *)

MaxOffers == 3

(* The numbers of issues of the domains considered.                        *)
IssueCounts == {1, 2}

(* Fixed-point unit: 1.0 is Scale.                                         *)
Scale == 10000

(* The values an issue can take, and the own utility of each.              *)
Values == {1, 2}

ValueUtility == <<10000, 4000>>

(* The instants at which the clock is read, as progress in [0, Scale].     *)
ProgressGrid == <<0, 9900, 10000>>

----------------------------------------------------------------------------
(* Program constants.                                                      *)

InitialUtility == 10000

DefaultEstimate == 9500

DefaultReservation == 7000

AcceptAlways == 9900

BetaInverse == 200

K == 1800

DeadlineProgress == 9900

BandLow == -2000

BandHigh == 500

MaxConcession == 1000

DampingTenths == 3

----------------------------------------------------------------------------
(* Bids and the own profile.                                               *)

None == <<>>

RECURSIVE AllBidsList(_)
AllBidsList(n) ==
    IF n = 0 THEN {<<>>}
    ELSE {Append(b, v) : b \in AllBidsList(n - 1), v \in Values}

RECURSIVE SumSeq(_)
SumSeq(s) == IF s = <<>> THEN 0 ELSE Head(s) + SumSeq(Tail(s))

(* profile.getUtility(bid): linear additive, equal issue weights.          *)
getUtility(bid) ==
    SumSeq([i \in 1..Len(bid) |-> ValueUtility[bid[i]]]) \div Len(bid)

WorstBid(n) == CHOOSE b \in AllBidsList(n) : \A i \in 1..n : b[i] = 2

Profiles ==
    {[issues |-> n, reservationBid |-> None] : n \in IssueCounts} \cup
    {[issues |-> n, reservationBid |-> WorstBid(n)] : n \in IssueCounts}

NoProfile == [issues |-> 0, reservationBid |-> None]

Progress == ProgressGrid[now]

----------------------------------------------------------------------------
(* Fractions <<numerator, denominator>> for the float weights.             *)

RECURSIVE Gcd(_, _)
Gcd(a, b) == IF b = 0 THEN a ELSE Gcd(b, a % b)

Reduce(q) ==
    LET g == Gcd(q[1], q[2]) IN
    IF g = 0 THEN q ELSE <<q[1] \div g, q[2] \div g>>

FracAdd(p, q) == Reduce(<<p[1] * q[2] + q[1] * p[2], p[2] * q[2]>>)

FracMul(p, q) == Reduce(<<p[1] * q[1], p[2] * q[2]>>)

FracEq(p, q) == p[1] * q[2] = q[1] * p[2]

FracLeq(p, q) == p[1] * q[2] <= q[1] * p[2]

(* A fraction in [0, 1] as a fixed-point number.                           *)
ToFixed(q) == (q[1] * Scale) \div q[2]

----------------------------------------------------------------------------
(* opponent_action: the opponent model.                                    *)

(* Variant of ValueChanged that compares with the offer before the one    *)
(* just appended.                                                          *)
ValueChangedFromPrevious(history, i, value) ==
    /\ Len(history) >= 2
    /\ history[Len(history) - 1][i] # value

(* Variant of ValueChanged with the comparison inverted (== for !=).       *)
ValueChangedInverted(history, i, value) == history[Len(history)][i] = value

(* Line 180: the test that decides whether issue i counts as changed.  It  *)
(* reads bid_history[-1] after line 164 has appended the new offer.        *)
ValueChanged(history, i, value) == history[Len(history)][i] # value

(* Variant of Increment that counts only the values that have an entry.    *)
IncrementSeenOnly(freq, value) ==
    IF value \in DOMAIN freq
    THEN [freq EXCEPT ![value] = @ + 1]
    ELSE freq

(* Line 190: dict.get(value, 0) + 1.                                       *)
Increment(freq, value) ==
    IF value \in DOMAIN freq
    THEN [freq EXCEPT ![value] = @ + 1]
    ELSE [v \in DOMAIN freq \cup {value} |->
            IF v = value THEN 1 ELSE freq[v]]

(* Lines 167-174: the first offer initialises the three lists.             *)
InitialModel(bid) ==
    [weights |-> [i \in 1..Len(bid) |-> <<1, Len(bid)>>],
     counter |-> [i \in 1..Len(bid) |-> 1],
     freqs   |-> [i \in 1..Len(bid) |-> [v \in {bid[i]} |-> 1]],
     error   |-> "none"]

(* Lines 180-190: one iteration of the loop, for issue i.                  *)
UpdateIssue(m, i, bid, history) ==
    LET counter == IF ValueChanged(history, i, bid[i])
                   THEN [m.counter EXCEPT ![i] = @ * 2]
                   ELSE m.counter
        change_total == SumSeq(counter)
        issue_weight_sum == change_total - counter[i]
        issue_weight_denominator == change_total * (Len(bid) - 1)
    IN  IF issue_weight_denominator = 0
        THEN [m EXCEPT !.counter = counter, !.error = "ZeroDivisionError"]
        ELSE [weights |-> [m.weights EXCEPT
                             ![i] = <<issue_weight_sum, issue_weight_denominator>>],
              counter |-> counter,
              freqs   |-> [m.freqs EXCEPT ![i] = Increment(@, bid[i])],
              error   |-> "none"]

(* Lines 178-190: the loop over the issues, left at the first exception.   *)
RECURSIVE UpdateFrom(_, _, _, _)
UpdateFrom(m, i, bid, history) ==
    IF i > Len(bid) \/ m.error # "none" THEN m
    ELSE UpdateFrom(UpdateIssue(m, i, bid, history), i + 1, bid, history)

(* Lines 154-190, for an Offer carrying bid.                               *)
ObserveOffer(bid) ==
    LET history == Append(bid_history, bid)
        m == IF issue_weights = <<>>
             THEN InitialModel(bid)
             ELSE UpdateFrom([weights |-> issue_weights,
                              counter |-> issue_change_counter,
                              freqs   |-> value_frequencies,
                              error   |-> "none"], 1, bid, history)
    IN  /\ last_received_bid' = bid
        /\ bid_history' = history
        /\ issue_weights' = m.weights
        /\ issue_change_counter' = m.counter
        /\ value_frequencies' = m.freqs
        /\ error' = m.error
        /\ turns_since_offer' = 0

(* Line 154: an action that is not an Offer is ignored.                    *)
opponent_action(action) ==
    IF action.type = "Offer"
    THEN ObserveOffer(action.bid)
    ELSE UNCHANGED <<model_vars, error, turns_since_offer>>

----------------------------------------------------------------------------
(* accept_condition.                                                       *)

(* pow(x, n) in fixed point, by squaring; each product is truncated.       *)
RECURSIVE FixPow(_, _)
FixPow(x, n) ==
    IF n = 0 THEN Scale
    ELSE IF n % 2 = 0
         THEN LET h == FixPow(x, n \div 2) IN (h * h) \div Scale
         ELSE (x * FixPow(x, n - 1)) \div Scale

(* Lines 249-251: utility = k + (1-k) * pow(progress, 1/beta).             *)
ConcessionCurve(progress) ==
    K + ((Scale - K) * FixPow(progress, BetaInverse)) \div Scale

(* Lines 238-241.                                                          *)
Reservation ==
    IF profile.reservationBid = None
    THEN DefaultReservation
    ELSE getUtility(profile.reservationBid)

(* Variant of AcceptAt that compares with the curve itself, not 1 - curve. *)
AcceptAtInverted(u, progress, reservation) ==
    IF u >= AcceptAlways THEN TRUE
    ELSE IF u >= ConcessionCurve(progress) THEN TRUE
    ELSE u > reservation /\ progress >= DeadlineProgress

(* Variant of AcceptAt in which every test joins the final all(...).       *)
AcceptAtAll(u, progress, reservation) ==
    /\ u >= AcceptAlways
    /\ u >= Scale - ConcessionCurve(progress)
    /\ u > reservation
    /\ progress >= DeadlineProgress

(* Lines 243-272, for a bid of own utility u.                              *)
AcceptAt(u, progress, reservation) ==
    IF u >= AcceptAlways THEN TRUE
    ELSE IF u >= Scale - ConcessionCurve(progress) THEN TRUE
    ELSE u > reservation /\ progress >= DeadlineProgress

(* Variant of accept_condition that also accepts a bid at least as good   *)
(* as the last bid sent.                                                   *)
accept_conditionNext(bid) ==
    IF bid = None THEN FALSE
    ELSE \/ AcceptAt(getUtility(bid), Progress, Reservation)
         \/ getUtility(bid) >= utility_last_sent_bid.val

(* Lines 231-272.                                                          *)
accept_condition(bid) ==
    IF bid = None THEN FALSE
    ELSE AcceptAt(getUtility(bid), Progress, Reservation)

----------------------------------------------------------------------------
(* find_bid.                                                               *)

(* Lines 291 and 307: utility_last_sent_bid - getUtility(bid).             *)
DiffSent(bid) == utility_last_sent_bid.val - getUtility(bid)

(* Lines 293-296, with both sides of the band multiplied by ten.           *)
Tier1Match(bid, diff_received_utility) ==
    LET x == 10 * DiffSent(bid) - DampingTenths * diff_received_utility
    IN  /\ 10 * BandLow < x
        /\ x < 10 * BandHigh
        /\ DiffSent(bid) < MaxConcession

(* Variant of Tier2Match with the comparison inverted (> for <).           *)
Tier2MatchInverted(bid) == DiffSent(bid) > MaxConcession

(* Line 307.                                                               *)
Tier2Match(bid) == DiffSent(bid) < MaxConcession

(* Line 307 subtracts a Decimal from utility_last_sent_bid without the     *)
(* conversion of line 291: a float operand raises TypeError.               *)
Tier2Raises == utility_last_sent_bid.type = "float"

(* Lines 274-314.  The samples are random: a tier returns any bid that     *)
(* passes its test, and is exhausted when every sample fails it, which can *)
(* happen as soon as one bid of the domain fails it.  The result is the    *)
(* Variant of find_bid that reads utility_last_received_bid after the     *)
(* current estimate was stored in it.                                      *)
find_bidAfterStore(utility) ==
    LET all_bids == AllBidsList(profile.issues)
        diff_received_utility == utility - utility
        first  == {b \in all_bids : Tier1Match(b, diff_received_utility)}
        second == {b \in all_bids : Tier2Match(b)}
        Found(bids, t) == {[error |-> "none", bid |-> b, tier |-> t] : b \in bids}
    IN  Found(first, 1) \cup
        (IF first = all_bids THEN {}
         ELSE IF Tier2Raises
              THEN {[error |-> "TypeError", bid |-> None, tier |-> 2]}
              ELSE Found(second, 2) \cup
                   (IF second = all_bids THEN {} ELSE Found(all_bids, 3)))

(* set of outcomes [error, bid, tier] the call can have.                   *)
find_bid(utility) ==
    LET all_bids == AllBidsList(profile.issues)
        diff_received_utility == utility_last_received_bid - utility
        first  == {b \in all_bids : Tier1Match(b, diff_received_utility)}
        second == {b \in all_bids : Tier2Match(b)}
        Found(bids, t) == {[error |-> "none", bid |-> b, tier |-> t] : b \in bids}
    IN  Found(first, 1) \cup
        (IF first = all_bids THEN {}
         ELSE IF Tier2Raises
              THEN {[error |-> "TypeError", bid |-> None, tier |-> 2]}
              ELSE Found(second, 2) \cup
                   (IF second = all_bids THEN {} ELSE Found(all_bids, 3)))

----------------------------------------------------------------------------
(* my_turn.                                                                *)

(* Line 205: one term of the estimate, as a fraction.                      *)
EstimateTerm(i) ==
    LET freq == value_frequencies[i]
        total == SumSeq([k \in 1..Cardinality(DOMAIN freq) |->
                    freq[CHOOSE v \in DOMAIN freq :
                        Cardinality({w \in DOMAIN freq : w < v}) = k - 1]])
    IN  FracMul(issue_weights[i], <<freq[last_received_bid[i]], total>>)

RECURSIVE EstimateSum(_)
EstimateSum(n) ==
    IF n = 0 THEN <<0, 1>> ELSE FracAdd(EstimateSum(n - 1), EstimateTerm(n))

(* Line 205 looks the value up with [], which raises KeyError when the     *)
(* value has no entry.                                                     *)
EstimateRaises ==
    \E i \in 1..Len(last_received_bid) :
        last_received_bid[i] \notin DOMAIN value_frequencies[i]

(* Variant of Estimate whose accumulator starts from the stored estimate   *)
(* instead of 0.                                                           *)
EstimateAccumulating ==
    IF last_received_bid = None
    THEN [error |-> "none", value |-> DefaultEstimate]
    ELSE IF EstimateRaises
         THEN [error |-> "KeyError", value |-> 0]
         ELSE [error |-> "none",
               value |-> utility_last_received_bid +
                         ToFixed(EstimateSum(Len(last_received_bid)))]

(* Lines 199-205: the local variable utility.                              *)
Estimate ==
    IF last_received_bid = None
    THEN [error |-> "none", value |-> DefaultEstimate]
    ELSE IF EstimateRaises
         THEN [error |-> "KeyError", value |-> 0]
         ELSE [error |-> "none",
               value |-> ToFixed(EstimateSum(Len(last_received_bid)))]

(* An exception leaves my_turn before anything is assigned or sent.        *)
TurnRaises(e) ==
    /\ error' = e
    /\ outbox' = <<>>
    /\ found_bid' = None
    /\ UNCHANGED <<utility_last_received_bid, utility_last_sent_bid,
                   turns_since_offer>>

(* Variant of TurnSends that updates utility_last_sent_bid only when the   *)
(* turn ends in an Offer.                                                  *)
TurnSendsSentOnOffer(utility, found) ==
    LET accept == accept_condition(last_received_bid)
        action == IF accept
                  THEN [type |-> "Accept", bid |-> last_received_bid]
                  ELSE [type |-> "Offer", bid |-> found.bid]
    IN  /\ utility_last_sent_bid' =
               IF accept THEN utility_last_sent_bid
               ELSE [type |-> "Decimal", val |-> getUtility(found.bid)]
        /\ found_bid' = found.bid
        /\ utility_last_received_bid' = utility
        /\ outbox' = <<action>>
        /\ error' = "none"
        /\ turns_since_offer' =
               IF turns_since_offer < 2 THEN turns_since_offer + 1 ELSE 2

(* Variant of TurnSends whose Accept carries the bid find_bid returned.    *)
TurnSendsAcceptFound(utility, found) ==
    LET action == IF accept_condition(last_received_bid)
                  THEN [type |-> "Accept", bid |-> found.bid]
                  ELSE [type |-> "Offer", bid |-> found.bid]
    IN  /\ utility_last_sent_bid' =
               [type |-> "Decimal", val |-> getUtility(found.bid)]
        /\ found_bid' = found.bid
        /\ utility_last_received_bid' = utility
        /\ outbox' = <<action>>
        /\ error' = "none"
        /\ turns_since_offer' =
               IF turns_since_offer < 2 THEN turns_since_offer + 1 ELSE 2

(* Lines 208-220, once find_bid returned found.                            *)
TurnSends(utility, found) ==
    LET action == IF accept_condition(last_received_bid)
                  THEN [type |-> "Accept", bid |-> last_received_bid]
                  ELSE [type |-> "Offer", bid |-> found.bid]
    IN  /\ utility_last_sent_bid' =
               [type |-> "Decimal", val |-> getUtility(found.bid)]
        /\ found_bid' = found.bid
        /\ utility_last_received_bid' = utility
        /\ outbox' = <<action>>
        /\ error' = "none"
        /\ turns_since_offer' =
               IF turns_since_offer < 2 THEN turns_since_offer + 1 ELSE 2

(* Lines 193-220.                                                          *)
my_turn ==
    LET utility == Estimate IN
    IF utility.error # "none"
    THEN TurnRaises(utility.error)
    ELSE \E found \in find_bid(utility.value) :
            IF found.error # "none"
            THEN TurnRaises(found.error)
            ELSE TurnSends(utility.value, found)

----------------------------------------------------------------------------
(* notifyChange: one action per kind of Inform.                            *)

Running == phase = "Active" /\ error = "none"

Actions(n) ==
    {[type |-> t, bid |-> b] : t \in {"Offer", "Accept"}, b \in AllBidsList(n)}

(* Lines 72-88.                                                            *)
NotifySettings ==
    /\ phase = "AwaitingSettings"
    /\ phase' = "Active"
    /\ profile' \in Profiles
    /\ last_event' = [type |-> "Settings", actor |-> "none"]
    /\ outbox' = <<>>
    /\ found_bid' = None
    /\ UNCHANGED <<now, model_vars, utility_last_received_bid,
                   utility_last_sent_bid, error, turns_since_offer>>

(* Variant of HandleActionDone without the test of the actor.              *)
HandleActionDoneUnfiltered(actor, action) == opponent_action(action)

(* Lines 92-102.                                                           *)
HandleActionDone(actor, action) ==
    IF actor # "me"
    THEN opponent_action(action)
    ELSE UNCHANGED <<model_vars, error, turns_since_offer>>

NotifyActionDone ==
    /\ Running
    /\ \E actor \in {"me", "other"}, action \in Actions(profile.issues) :
        /\ (actor = "other" /\ action.type = "Offer")
              => Len(bid_history) < MaxOffers
        /\ HandleActionDone(actor, action)
        /\ last_event' = [type |-> "ActionDone", actor |-> actor]
    /\ outbox' = <<>>
    /\ found_bid' = None
    /\ UNCHANGED <<phase, profile, now, utility_last_received_bid,
                   utility_last_sent_bid>>

(* Lines 104-106.                                                          *)
NotifyYourTurn ==
    /\ Running
    /\ my_turn
    /\ last_event' = [type |-> "YourTurn", actor |-> "none"]
    /\ UNCHANGED <<phase, profile, now, model_vars>>

(* Lines 109-113.                                                          *)
NotifyFinished ==
    /\ Running
    /\ phase' = "Finished"
    /\ last_event' = [type |-> "Finished", actor |-> "none"]
    /\ outbox' = <<>>
    /\ found_bid' = None
    /\ UNCHANGED <<profile, now, model_vars, utility_last_received_bid,
                   utility_last_sent_bid, error, turns_since_offer>>

(* Time passes between two events: line 235 reads the clock.               *)
Tick ==
    /\ Running
    /\ now < Len(ProgressGrid)
    /\ now' = now + 1
    /\ UNCHANGED <<phase, profile, model_vars, utility_last_received_bid,
                   utility_last_sent_bid, error, last_event, outbox,
                   turns_since_offer, found_bid>>

(* Lines 38-57.                                                            *)
Init ==
    /\ phase = "AwaitingSettings"
    /\ profile = NoProfile
    /\ now = 1
    /\ bid_history = <<>>
    /\ value_frequencies = <<>>
    /\ issue_weights = <<>>
    /\ issue_change_counter = <<>>
    /\ last_received_bid = None
    /\ utility_last_received_bid = InitialUtility
    /\ utility_last_sent_bid = [type |-> "float", val |-> InitialUtility]
    /\ error = "none"
    /\ last_event = [type |-> "none", actor |-> "none"]
    /\ outbox = <<>>
    /\ turns_since_offer = 0
    /\ found_bid = None

Next ==
    \/ NotifySettings
    \/ NotifyActionDone
    \/ NotifyYourTurn
    \/ NotifyFinished
    \/ Tick

Spec == Init /\ [][Next]_vars

----------------------------------------------------------------------------
(* Claims.                                                                 *)

IsTurn == last_event.type = "YourTurn"

(* An opponent offer after the first was processed without an exception.   *)
LaterOfferObserved ==
    /\ Len(bid_history) >= 1
    /\ Len(bid_history') = Len(bid_history) + 1
    /\ error' = "none"

(* C1: for every opponent offer after the first and every issue i, the     *)
(* volatility counter of i is doubled if the value of i differs from the   *)
(* one in the preceding offer and is unchanged otherwise; after (a1,b1)    *)
(* then (a1,b2) the counters are [1, 2] and the weights [2/3, 1/3].        *)
C1_VolatilityDoubles ==
    [][LaterOfferObserved =>
        /\ \A i \in 1..Len(last_received_bid') :
              issue_change_counter'[i] =
                  IF last_received_bid'[i] # last_received_bid[i]
                  THEN 2 * issue_change_counter[i]
                  ELSE issue_change_counter[i]
        /\ bid_history' = << <<1, 1>>, <<1, 2>> >> =>
              /\ issue_change_counter' = <<1, 2>>
              /\ FracEq(issue_weights'[1], <<2, 3>>)
              /\ FracEq(issue_weights'[2], <<1, 3>>)]_vars

(* C2: in every state of a running session a call of find_bid returns a    *)
(* bid of the domain: it has an outcome, and no outcome is an exception.   *)
C2_FindBidTotal ==
    (Running /\ Estimate.error = "none") =>
        /\ find_bid(Estimate.value) # {}
        /\ \A found \in find_bid(Estimate.value) :
              /\ found.error = "none"
              /\ found.bid \in AllBidsList(profile.issues)

(* C3: every YourTurn event results in exactly one outbound action, an     *)
(* Accept or an Offer.                                                     *)
C3_OneActionPerTurn ==
    IsTurn =>
        /\ Len(outbox) = 1
        /\ outbox[1].type \in {"Accept", "Offer"}

(* C4: in a single-issue domain observing opponent offers never divides by *)
(* zero, and the weight of the only issue is 1.0 after every observation.  *)
C4_SingleIssue ==
    (profile.issues = 1 /\ bid_history # <<>>) =>
        /\ error # "ZeroDivisionError"
        /\ FracEq(issue_weights[1], <<1, 1>>)

(* C5: no Accept is emitted for a bid whose own utility is below the       *)
(* reservation utility.                                                    *)
C5_NeverBelowReservation ==
    \A k \in 1..Len(outbox) :
        outbox[k].type = "Accept" => getUtility(outbox[k].bid) >= Reservation

(* C6: if accept_condition holds for the last received bid at the current  *)
(* progress, it holds for the same bid and profile at every later progress.*)
C6_MonotoneInProgress ==
    (last_received_bid # None /\ accept_condition(last_received_bid)) =>
        \A later \in now..Len(ProgressGrid) :
            AcceptAt(getUtility(last_received_bid), ProgressGrid[later],
                     Reservation)

(* A turn accepted a bid of own utility below 0.99 before the deadline.    *)
C6_Witness ==
    /\ IsTurn
    /\ Len(outbox) = 1
    /\ outbox[1].type = "Accept"
    /\ getUtility(outbox[1].bid) < AcceptAlways
    /\ now < Len(ProgressGrid)

(* C7: accept_condition holds for every bid of own utility >= 0.99 at any  *)
(* progress and reservation utility, and a turn whose last received bid is *)
(* such a bid sends an Accept.                                             *)
C7_HighUtilityAccepted ==
    /\ phase # "AwaitingSettings" =>
          \A bid \in AllBidsList(profile.issues) :
              getUtility(bid) >= AcceptAlways => accept_condition(bid)
    /\ (IsTurn /\ error = "none" /\ last_received_bid # None
          /\ getUtility(last_received_bid) >= AcceptAlways) =>
              outbox = <<[type |-> "Accept", bid |-> last_received_bid]>>

(* A turn before progress 0.99 answered a bid of own utility >= 0.99, in a *)
(* profile with a reservation bid.                                         *)
C7_Witness ==
    /\ IsTurn
    /\ error = "none"
    /\ last_received_bid # None
    /\ getUtility(last_received_bid) >= AcceptAlways
    /\ Progress < DeadlineProgress
    /\ profile.reservationBid # None

(* C8: an ActionDone whose actor is this agent leaves last_received_bid,   *)
(* bid_history, issue_weights, issue_change_counter and value_frequencies  *)
(* unchanged; they change only on an ActionDone of another actor.          *)
C8_SelfEchoIgnored ==
    [][/\ (last_event'.type = "ActionDone" /\ last_event'.actor = "me") =>
              UNCHANGED model_vars
       /\ model_vars' # model_vars =>
              (last_event'.type = "ActionDone" /\ last_event'.actor = "other")
      ]_vars

(* The agent's own action was echoed after opponent offers were observed.  *)
C8_Witness ==
    /\ last_event.type = "ActionDone"
    /\ last_event.actor = "me"
    /\ Len(bid_history) >= 2

(* C9: a turn leaves the opponent model unchanged, and a turn that follows *)
(* a turn with no opponent offer in between computes the same estimate:    *)
(* the value it stores is the one the earlier turn stored.                 *)
C9_EstimateIdempotent ==
    [][last_event'.type = "YourTurn" =>
        /\ UNCHANGED model_vars
        /\ (turns_since_offer >= 1 /\ error' = "none") =>
              /\ utility_last_received_bid = Estimate.value
              /\ utility_last_received_bid' = utility_last_received_bid]_vars

(* Two turns were taken after the last of several opponent offers.         *)
C9_Witness ==
    /\ IsTurn
    /\ turns_since_offer = 2
    /\ Len(bid_history) >= 2
    /\ utility_last_received_bid < Scale

NeverChanged(i) ==
    \A k \in 1..Len(bid_history) : bid_history[k][i] = bid_history[1][i]

(* C10: with two or more issues, an issue whose value never changed in the *)
(* observed offers has the lowest volatility counter and the highest       *)
(* weight of all issues.                                                   *)
C10_StableIssueHeaviest ==
    (profile.issues >= 2 /\ bid_history # <<>> /\ error = "none") =>
        \A i \in 1..profile.issues :
            NeverChanged(i) =>
                \A j \in 1..profile.issues :
                    /\ issue_change_counter[i] <= issue_change_counter[j]
                    /\ FracLeq(issue_weights[j], issue_weights[i])

(* One issue kept its value over three offers while the other changed.     *)
C10_Witness ==
    /\ profile.issues = 2
    /\ Len(bid_history) >= 3
    /\ error = "none"
    /\ NeverChanged(1)
    /\ ~NeverChanged(2)

(* C11: a YourTurn before any opponent offer uses the estimate 0.95, and   *)
(* utility_last_received_bid is 0.95 after the turn.                       *)
C11_DefaultEstimate ==
    (IsTurn /\ last_received_bid = None) =>
        utility_last_received_bid = DefaultEstimate

C13_AcceptOnlyLastReceived ==
    \A k \in 1..Len(outbox) :
        /\ outbox[k].type = "Accept" =>
              /\ bid_history # <<>>
              /\ outbox[k].bid = bid_history[Len(bid_history)]
              /\ outbox[k].bid = last_received_bid
        /\ last_received_bid = None => outbox[k].type = "Offer"

(* A turn accepted the last of several offers while find_bid had returned  *)
(* another bid.                                                            *)
C13_Witness ==
    /\ IsTurn
    /\ Len(bid_history) >= 2
    /\ Len(outbox) = 1
    /\ outbox[1].type = "Accept"
    /\ found_bid # outbox[1].bid

Occurrences(i, v) ==
    Cardinality({k \in 1..Len(bid_history) : bid_history[k][i] = v})

(* C14: after k >= 1 opponent offers, value_frequencies[i][v] is the       *)
(* number of offers whose value for issue i is v, values never offered     *)
(* have no entry, and the counts of every issue sum to k, the length of    *)
(* bid_history.                                                            *)
C14_FrequenciesCountOffers ==
    bid_history # <<>> =>
        \A i \in 1..profile.issues :
            /\ \A v \in Values :
                  IF Occurrences(i, v) = 0
                  THEN v \notin DOMAIN value_frequencies[i]
                  ELSE /\ v \in DOMAIN value_frequencies[i]
                       /\ value_frequencies[i][v] = Occurrences(i, v)
            /\ DOMAIN value_frequencies[i] \subseteq Values

(* The tests a bid returned by find_bid passed, from the values the call   *)
(* started with.                                                           *)
InBand(bid, diff_received) ==
    LET delta_sent == utility_last_sent_bid.val - getUtility(bid)
        x == 10 * delta_sent - DampingTenths * diff_received
    IN  10 * BandLow < x /\ x < 10 * BandHigh

WithinConcession(bid) ==
    utility_last_sent_bid.val - getUtility(bid) < MaxConcession

(* C15: a bid returned by the first tier of find_bid satisfies             *)
(* -0.2 < delta_sent - 0.3*delta_received < 0.05 and delta_sent < 0.1, a   *)
(* bid returned by the second tier satisfies delta_sent < 0.1, and after   *)
(* the call utility_last_sent_bid is the own utility of the returned bid.  *)
C15_TierConditions ==
    /\ (Running /\ Estimate.error = "none") =>
          \A found \in find_bid(Estimate.value) :
              found.error = "none" =>
                  /\ found.tier = 1 =>
                        /\ InBand(found.bid,
                                  utility_last_received_bid - Estimate.value)
                        /\ WithinConcession(found.bid)
                  /\ found.tier = 2 => WithinConcession(found.bid)
    /\ (IsTurn /\ error = "none") =>
          utility_last_sent_bid = [type |-> "Decimal",
                                   val  |-> getUtility(found_bid)]

(* A turn returned a bid of lower own utility, and the next call can       *)
(* return from the first, the second and the third tier.                   *)
C15_Witness ==
    /\ IsTurn
    /\ Running
    /\ found_bid # None
    /\ utility_last_sent_bid.val < Scale
    /\ \A t \in 1..3 : \E found \in find_bid(Estimate.value) : found.tier = t

(* A step that handles YourTurn, and one that handles it to the end.       *)
TurnStep == last_event'.type = "YourTurn" /\ now' = now

TurnDone == TurnStep /\ error' = "none"

(* C16: the delta_received of the bid search is the estimate stored by the *)
(* previous turn (1.0 on the first turn) minus the estimate of the current *)
(* turn; utility_last_received_bid is overwritten with the current         *)
(* estimate at the end of a turn and changed by no other event.            *)
C16_DeltaFromPreviousTurn ==
    /\ utility_last_received_bid = InitialUtility
    /\ [][/\ utility_last_received_bid' # utility_last_received_bid =>
                TurnDone /\ Len(outbox') = 1
          /\ TurnDone =>
                /\ utility_last_received_bid' = Estimate.value
                /\ \A found \in find_bid(Estimate.value) :
                      (found.error = "none" /\ found.tier = 1) =>
                          InBand(found.bid,
                                 utility_last_received_bid - Estimate.value)]_vars

(* A turn stored its estimate, offers were observed since, and the        *)
(* estimate of the next turn differs from the stored one.                  *)
C16_Witness ==
    /\ ~IsTurn
    /\ Running
    /\ turns_since_offer = 0
    /\ Len(bid_history) >= 2
    /\ utility_last_received_bid # InitialUtility
    /\ utility_last_received_bid # DefaultEstimate
    /\ Estimate.value # utility_last_received_bid

(* The sum of the weights of the first n issues, as an exact fraction.     *)
RECURSIVE WeightSum(_)
WeightSum(n) ==
    IF n = 0 THEN <<0, 1>> ELSE FracAdd(WeightSum(n - 1), issue_weights[n])

(* C17: after at least one observed opponent offer in a domain with        *)
(* N >= 2 issues, the per-issue weights sum to 1.0.                        *)
C17_WeightsSumToOne ==
    (profile.issues >= 2 /\ bid_history # <<>>) =>
        FracEq(WeightSum(profile.issues), <<1, 1>>)

(* Several offers that differ in every issue were observed in a domain     *)
(* with two issues.                                                        *)
C17_Witness ==
    /\ profile.issues >= 2
    /\ error = "none"
    /\ Len(bid_history) >= 3
    /\ \A i \in 1..profile.issues :
          /\ bid_history[1][i] # bid_history[2][i]
          /\ bid_history[2][i] = bid_history[3][i]

(* C18: in every reachable state utility_last_received_bid and             *)
(* utility_last_sent_bid lie in [0,1]; the estimate written to             *)
(* utility_last_received_bid is never above 1 and never negative.          *)
C18_ScalarsInUnitInterval ==
    /\ 0 <= utility_last_received_bid
    /\ utility_last_received_bid <= Scale
    /\ 0 <= utility_last_sent_bid.val
    /\ utility_last_sent_bid.val <= Scale

(* A turn stored an estimate and a sent utility strictly inside (0,1).     *)
C18_Witness ==
    /\ IsTurn
    /\ error = "none"
    /\ bid_history # <<>>
    /\ 0 < utility_last_received_bid
    /\ utility_last_received_bid < DefaultEstimate
    /\ 0 < utility_last_sent_bid.val
    /\ utility_last_sent_bid.val < Scale

(* C19: the acceptance decision of a turn is a function of the own utility *)
(* of the received bid, the progress and the reservation utility alone,    *)
(* whatever the opponent model, the bid history, utility_last_received_bid *)
(* and utility_last_sent_bid are, and it changes no agent state: the model *)
(* state, the profile and the clock are as before the turn.                *)
C19_DecisionFromUtilityAndProgress ==
    [][TurnDone =>
          /\ Len(outbox') = 1
          /\ (outbox'[1].type = "Accept") =
                 (/\ last_received_bid # None
                  /\ AcceptAt(getUtility(last_received_bid), Progress,
                              Reservation))
          /\ UNCHANGED <<model_vars, profile, now, phase>>]_vars

(* A turn offered although the received bid is at least as good as the bid *)
(* it sent before, with both scalars off their initial values.             *)
C19_Witness ==
    /\ IsTurn
    /\ error = "none"
    /\ last_received_bid # None
    /\ Len(outbox) = 1
    /\ outbox[1].type = "Offer"
    /\ utility_last_received_bid # InitialUtility
    /\ getUtility(last_received_bid) >= utility_last_sent_bid.val

(* C20: utility_last_sent_bid is the own utility of the bid of the most    *)
(* recent Offer this agent emitted, 1.0 before any Offer; a turn that ends *)
(* in an Accept leaves it unchanged.                                       *)
C20_SentIsLastOffer ==
    /\ utility_last_sent_bid.val = InitialUtility
    /\ [][IF TurnDone /\ outbox'[1].type = "Offer"
          THEN utility_last_sent_bid'.val = getUtility(outbox'[1].bid)
          ELSE utility_last_sent_bid'.val = utility_last_sent_bid.val]_vars

(* C20 amended: utility_last_sent_bid is the own utility of the bid most   *)
(* recently returned by find_bid, whether the turn sent it in an Offer or  *)
(* discarded it for an Accept, and 1.0 before find_bid returned; no other  *)
(* event changes it.                                                       *)
C20_SentIsLastFound ==
    /\ utility_last_sent_bid = [type |-> "float", val |-> InitialUtility]
    /\ [][IF TurnDone
          THEN /\ found_bid' # None
               /\ utility_last_sent_bid' =
                      [type |-> "Decimal", val |-> getUtility(found_bid')]
          ELSE utility_last_sent_bid' = utility_last_sent_bid]_vars

(* A turn ended in an Accept and left in utility_last_sent_bid the utility *)
(* of the bid find_bid returned, which is not the bid accepted.            *)
C20_Witness ==
    /\ IsTurn
    /\ error = "none"
    /\ Len(outbox) = 1
    /\ outbox[1].type = "Accept"
    /\ found_bid # None
    /\ utility_last_sent_bid.val = getUtility(found_bid)
    /\ utility_last_sent_bid.val < Scale
    /\ getUtility(found_bid) # getUtility(outbox[1].bid)

====
